---- MODULE Spec2Model ----
(***************************************************************************)
(* Model of walmart/walmart.py: the Walmart client's request lifecycle.    *)
(* A client holds a token and a requests session; send_request dispatches  *)
(* one HTTP request, classifies the response and, on the expired-token     *)
(* 400, calls authenticate() and then itself again.  The remote service    *)
(* is the environment: it answers every dispatched request with any        *)
(* response of the set Responses.                                          *)
(*                                                                         *)
(* Python values are modelled as follows.  None is the string "None".      *)
(* Opaque payloads (params, bodies, tokens) are strings.  The call stack   *)
(* of the interpreter is the sequence `stack` of frames; one TLA+ step is  *)
(* everything the interpreter does between two events of the outside       *)
(* world (a call by the library's user, a response of the service).        *)
(***************************************************************************)
EXTENDS Integers, Sequences, FiniteSets, TLC

VARIABLES
    stack,              \* interpreter frames of send_request / authenticate
    token,              \* Walmart.token
    token_expires_in,   \* Walmart.token_expires_in
    session_headers,    \* Walmart.session.headers
    nextId,             \* how many identifiers uuid.uuid4() has produced, plus one
    log,                \* history: the HTTP requests dispatched by the current call
    issued,             \* history: correlation ids dispatched by earlier calls
    nauth,              \* history: authenticate() invocations of the current call
    op,                 \* history: the call the library's user made
    lastGrant,          \* history: token response of the last successful authenticate()
    lastAuth,           \* history: how the most recent authenticate() ended
    result,             \* what the user's call returned or raised
    io                  \* input and outcome of an operation that makes no request
                        \* of its own (classification, payload codec)

clientVars == <<stack, token, token_expires_in, session_headers, nextId, log, issued,
                nauth, op, lastGrant, lastAuth, result>>

vars == <<clientVars, io>>

-----------------------------------------------------------------------------
(* Bounds *)

\* Frames the interpreter allows on the stack before it raises RecursionError
\* (sys.getrecursionlimit(), scaled down).
RecursionLimit == 4

\* No new user call starts once this many correlation ids have been drawn.
MaxIds == 2

-----------------------------------------------------------------------------
(* Values *)

None == "None"

INVALID_TOKEN == "INVALID_TOKEN.GMP_GATEWAY_API"
NO_REPORT == "NO_REPORT"
ACCESS_TOKEN == "WM_SEC.ACCESS_TOKEN"
CORRELATION_ID == "WM_QOS.CORRELATION_ID"

base_url == "https://marketplace.walmartapis.com/v3"
resource_url == "https://marketplace.walmartapis.com/v3/resource"
token_url == "https://marketplace.walmartapis.com/v3/token"

Tokens == {"T1", "T2"}

\* A dict passed as request_headers is named by a string; HeaderDict gives the dict.
HeaderDict(h) ==
    IF h = "XML" THEN ("Content-Type" :> "application/xml") ELSE <<>>

\* dict.update
Update(d, u) ==
    [k \in (DOMAIN d) \cup (DOMAIN u) |-> IF k \in DOMAIN u THEN u[k] ELSE d[k]]

\* The arguments of one send_request call.
Descriptor(method, url, params, body, json, request_headers, octet_stream) ==
    [method |-> method, url |-> url, params |-> params, body |-> body,
     json |-> json, request_headers |-> request_headers,
     octet_stream |-> octet_stream]

\* The calls a user of the library makes through the resource classes, and
\* two direct ones (a POST given both bodies, a method send_request ignores).
Descriptors ==
    { Descriptor("GET", resource_url, "P", None, None, None, FALSE),
      Descriptor("GET", resource_url, "P", None, None, None, TRUE),
      Descriptor("PUT", resource_url, "P", "B", None, "XML", FALSE),
      Descriptor("POST", resource_url, "P", None, "J", None, FALSE),
      Descriptor("POST", resource_url, "P", None, None, None, FALSE),
      Descriptor("POST", resource_url, None, "B", "J", None, TRUE),
      Descriptor("DELETE", resource_url, None, None, None, None, FALSE) }

\* The call authenticate() makes.
TokenRequest ==
    Descriptor("POST", token_url, None, "grant_type=client_credentials",
               None, None, FALSE)

-----------------------------------------------------------------------------
(* Responses of the service *)

\* A response body.  fmt: "json" (response.json() succeeds; the decoded value
\* is a dict with the keys `keys`), "xml" (not JSON, parses as XML; `error`
\* lists the codes of the root's error elements) or "raw" (neither).
\* `mentions` are marker strings found in the text outside the error codes.
Body(fmt, keys, error, mentions, access_token, expires_in) ==
    [fmt |-> fmt, keys |-> keys, error |-> error, mentions |-> mentions,
     access_token |-> access_token, expires_in |-> expires_in]

JsonError(codes, mentions) == Body("json", {"error"}, codes, mentions, None, None)
JsonOther(mentions) == Body("json", {"message"}, <<>>, mentions, None, None)
XmlError(codes, mentions) == Body("xml", {}, codes, mentions, None, None)
Raw(mentions) == Body("raw", {}, <<>>, mentions, None, None)
Grant(t, e) == Body("json", {"access_token", "expires_in"}, <<>>, {}, t, e)
GrantNoExpiry(t) == Body("json", {"access_token"}, <<>>, {}, t, None)

Response(status, body, disposition) ==
    [status |-> status, body |-> body, disposition |-> disposition]

NoResponse == Response(0, Raw({}), None)

ErrorBodies ==
    { JsonError(<<>>, {}), JsonError(<<INVALID_TOKEN>>, {}),
      JsonError(<<INVALID_TOKEN, NO_REPORT>>, {}),
      JsonError(<<NO_REPORT>>, {}), JsonError(<<"OTHER">>, {}),
      JsonError(<<"OTHER">>, {NO_REPORT}), JsonError(<<"OTHER", INVALID_TOKEN>>, {}),
      JsonOther({}), JsonOther({NO_REPORT}),
      XmlError(<<>>, {}), XmlError(<<>>, {NO_REPORT}), XmlError(<<INVALID_TOKEN>>, {}),
      XmlError(<<NO_REPORT>>, {}), XmlError(<<"OTHER">>, {}),
      Raw({}), Raw({NO_REPORT}) }

Responses ==
    { Response(200, JsonOther({}), None),
      Response(200, Grant("T1", "900"), None),
      Response(200, Grant("T2", "1800"), None),
      Response(200, GrantNoExpiry("T2"), None),
      Response(200, Raw({}), "attachment; filename=recon.zip"),
      Response(200, Raw({}), None),
      Response(401, JsonError(<<INVALID_TOKEN>>, {}), None),
      Response(401, Raw({}), None),
      Response(404, JsonError(<<"OTHER">>, {}), None),
      Response(500, Raw({}), None) }
    \cup { Response(400, b, None) : b \in ErrorBodies }

\* `marker in response.text`
TextContains(r, marker) ==
    \/ marker \in r.body.mentions
    \/ \E i \in 1..Len(r.body.error) : r.body.error[i] = marker

-----------------------------------------------------------------------------
(* Results of calls *)

\* A value a call returns: the decoded JSON object ("json"), response.content
\* ("bytes"), the pair (content, Content-Disposition) ("pair"), the pair
\* ([], None) ("empty"), or None ("none").
Value(kind, body, filename) == [kind |-> kind, body |-> body, filename |-> filename]

NoValue == Value("none", Raw({}), None)

Returned(v, r) == [status |-> "returned", value |-> v, exc |-> None, resp |-> r]
Raised(exc, r) == [status |-> "raised", value |-> NoValue, exc |-> exc, resp |-> r]
NoResult == [status |-> "none", value |-> NoValue, exc |-> None, resp |-> NoResponse]

\* The state as one record, so that the nested calls can be composed.
Cur ==
    [stack |-> stack, token |-> token, token_expires_in |-> token_expires_in,
     session_headers |-> session_headers, nextId |-> nextId, log |-> log,
     issued |-> issued, nauth |-> nauth, op |-> op, lastGrant |-> lastGrant,
     lastAuth |-> lastAuth, result |-> result]

Become(s) ==
    /\ stack' = s.stack
    /\ token' = s.token
    /\ token_expires_in' = s.token_expires_in
    /\ session_headers' = s.session_headers
    /\ nextId' = s.nextId
    /\ log' = s.log
    /\ issued' = s.issued
    /\ nauth' = s.nauth
    /\ op' = s.op
    /\ lastGrant' = s.lastGrant
    /\ lastAuth' = s.lastAuth
    /\ result' = s.result
    /\ io' = io

Frame(fn, args, pc, idx, depth) ==
    [fn |-> fn, args |-> args, pc |-> pc, idx |-> idx, depth |-> depth]

Top(s) == s.stack[Len(s.stack)]

\* Orders.all, lines 415-421: the empty order list
EmptyOrders == Value("orders", Raw({}), None)

\* Orders.all, lines 411-422: an HTTPError that reaches Orders.all is caught;
\* with a 404 response the empty order list is returned, else it is raised again.
OrdersExcept(exc, r) ==
    IF exc = "HTTPError" /\ r.status = 404
    THEN Returned(EmptyOrders, r)
    ELSE Raised(exc, r)

InAuthenticate(s) == \E i \in 1..Len(s.stack) : s.stack[i].fn = "authenticate"

\* An exception no frame of this module catches: it unwinds every frame and
\* reaches the user.  An authenticate() on the stack ends without completing.
Raise(s, exc, r) ==
    [s EXCEPT !.stack = <<>>,
              !.result = IF s.op.fn = "Orders.all" THEN OrdersExcept(exc, r)
                         ELSE Raised(exc, r),
              !.lastAuth = IF InAuthenticate(s) THEN "failed" ELSE @]

-----------------------------------------------------------------------------
(* send_request, lines 97-128: headers and dispatch *)

\* uuid.uuid4().hex: the n-th identifier the generator draws.
uuid4(n) == n

NewHeaders_reused(id, request_headers, octet_stream) ==
    LET h0 == (CORRELATION_ID :> 0)
        h1 == IF request_headers # None THEN Update(h0, HeaderDict(request_headers)) ELSE h0
    IN  IF octet_stream THEN Update(h1, ("Accept" :> "application/octet-stream")) ELSE h1

\* lines 103-109
NewHeaders(id, request_headers, octet_stream) ==
    LET h0 == (CORRELATION_ID :> id)
        h1 == IF request_headers # None THEN Update(h0, HeaderDict(request_headers)) ELSE h0
    IN  IF octet_stream THEN Update(h1, ("Accept" :> "application/octet-stream")) ELSE h1

Methods == {"GET", "PUT", "POST"}

\* lines 112-128, with a POST that passes data next to json
Wire_both(d, headers, sess) ==
    [method |-> d.method, url |-> d.url, params |-> d.params,
     data |-> IF d.method \in {"PUT", "POST"} THEN d.body ELSE None,
     json |-> IF d.method = "POST" /\ d.json # None THEN d.json ELSE None,
     headers |-> Update(sess, headers)]

\* lines 112-128: what session.get / put / post is given; requests merges the
\* session's headers with the call's.
Wire(d, headers, sess) ==
    [method |-> d.method, url |-> d.url, params |-> d.params,
     data |-> IF d.method = "PUT" \/ (d.method = "POST" /\ d.json = None)
              THEN d.body ELSE None,
     json |-> IF d.method = "POST" /\ d.json # None THEN d.json ELSE None,
     headers |-> Update(sess, headers)]

\* History of a dispatched request: the status that answered it, the first
\* code of the error list the answer carried, whether its text held NO_REPORT.
Answer(r) ==
    [status |-> r.status,
     code |-> IF r.body.fmt \in {"json", "xml"} /\ r.body.error # <<>>
              THEN r.body.error[1] ELSE None,
     noreport |-> TextContains(r, NO_REPORT),
     grant |-> r.body.fmt = "json" /\ {"access_token", "expires_in"} \subseteq r.body.keys]

NoAnswer == [status |-> 0, code |-> None, noreport |-> FALSE, grant |-> FALSE]

\* A call of send_request(d): a new frame, the headers, the dispatch.  kind,
\* replayOf, cause and depth are history: what the call is for.
CallSendRequest(s, d, kind, replayOf, cause, depth) ==
    IF Len(s.stack) >= RecursionLimit
    THEN Raise(s, "RecursionError", NoResponse)
    ELSE LET headers == NewHeaders(uuid4(s.nextId), d.request_headers, d.octet_stream)
             s1 == [s EXCEPT !.nextId = @ + 1]
         IN  IF d.method \in Methods
             THEN [s1 EXCEPT
                     !.log = Append(@, [desc |-> d,
                                        wire |-> Wire(d, headers, s.session_headers),
                                        kind |-> kind, replayOf |-> replayOf,
                                        cause |-> cause, depth |-> depth,
                                        granted |-> s.lastGrant.access_token,
                                        answer |-> NoAnswer]),
                     !.stack = Append(@, Frame("send_request", d, "wait",
                                               Len(s.log) + 1, depth))]
             ELSE \* response is None: line 162 reads None.json
                  Raise(s1, "AttributeError", NoResponse)

\* authenticate(), lines 49-55: the call of send_request for the token.
CallAuthenticate(s, cause) ==
    IF Len(s.stack) >= RecursionLimit
    THEN Raise([s EXCEPT !.nauth = @ + 1], "RecursionError", NoResponse)
    ELSE CallSendRequest(
             [s EXCEPT !.nauth = @ + 1,
                       !.stack = Append(@, Frame("authenticate", TokenRequest,
                                                 "token", 0, 0))],
             TokenRequest, "token", 0, cause, 0)

\* lines 155-157: the arguments of the replay, passed by position.
ReplayArgs(d) ==
    Descriptor(d.method, d.url, d.params, d.body, d.request_headers, None, FALSE)

-----------------------------------------------------------------------------
(* send_request, lines 130-168: the response *)

\* response.raise_for_status() raises HTTPError
raise_for_status(r) == r.status >= 400 /\ r.status < 600

ErrorData_xmlNoKey(r) ==
    IF r.body.fmt = "json"
    THEN [parsed |-> TRUE, hasError |-> "error" \in r.body.keys, error |-> r.body.error]
    ELSE IF r.body.fmt = "xml"
    THEN [parsed |-> TRUE, hasError |-> r.body.error # <<>>,
          error |-> SubSeq(r.body.error, 2, Len(r.body.error))]
    ELSE [parsed |-> FALSE, hasError |-> FALSE, error |-> <<>>]

\* lines 141-150: the decoded error data of a 400.  parsed is FALSE when the
\* text is neither JSON nor XML (ET.fromstring raises ParseError).
ErrorData(r) ==
    IF r.body.fmt = "json"
    THEN [parsed |-> TRUE, hasError |-> "error" \in r.body.keys, error |-> r.body.error]
    ELSE IF r.body.fmt = "xml"
    THEN [parsed |-> TRUE, hasError |-> TRUE, error |-> r.body.error]
    ELSE [parsed |-> FALSE, hasError |-> FALSE, error |-> <<>>]

Classify_retry401(r) ==
    IF ~raise_for_status(r) THEN "success"
    ELSE IF r.status \in {400, 401}
    THEN LET data == ErrorData(r)
         IN  IF ~data.parsed THEN IF r.status = 401 THEN "unauthorized" ELSE "ParseError"
             ELSE IF data.hasError /\ data.error = <<>> THEN "IndexError"
             ELSE IF data.hasError /\ data.error[1] = INVALID_TOKEN THEN "refresh"
             ELSE IF r.status = 401 THEN "unauthorized"
             ELSE IF data.hasError /\ TextContains(r, NO_REPORT) THEN "empty"
             ELSE "HTTPError"
    ELSE "HTTPError"

Classify_noReportOnly(r) ==
    IF ~raise_for_status(r) THEN "success"
    ELSE IF r.status = 401 THEN "unauthorized"
    ELSE IF r.status = 400
    THEN LET data == ErrorData(r)
         IN  IF ~data.parsed THEN "ParseError"
             ELSE IF data.hasError /\ data.error = <<>> THEN "IndexError"
             ELSE IF data.hasError /\ data.error[1] = INVALID_TOKEN THEN "refresh"
             ELSE IF data.hasError /\ data.error[1] = NO_REPORT THEN "empty"
             ELSE "HTTPError"
    ELSE "HTTPError"

\* lines 130-160: what send_request does with a response
Classify(r) ==
    IF ~raise_for_status(r) THEN "success"
    ELSE IF r.status = 401 THEN "unauthorized"
    ELSE IF r.status = 400
    THEN LET data == ErrorData(r)
         IN  IF ~data.parsed THEN "ParseError"
             ELSE IF data.hasError /\ data.error = <<>> THEN "IndexError"
             ELSE IF data.hasError /\ data.error[1] = INVALID_TOKEN THEN "refresh"
             ELSE IF data.hasError /\ TextContains(r, NO_REPORT) THEN "empty"
             ELSE "HTTPError"
    ELSE "HTTPError"

\* lines 161-168: the value of a response that raised nothing
Decode(r, octet_stream) ==
    IF r.body.fmt = "json" THEN Value("json", r.body, None)
    ELSE IF octet_stream THEN Value("pair", r.body, r.disposition)
    ELSE Value("bytes", r.body, None)

\* line 159
EmptyResult == Value("empty", Raw({}), None)

StoreHeader_stale(headers, tok) == headers

\* line 59
StoreHeader(headers, tok) == Update(headers, (ACCESS_TOKEN :> tok))

\* authenticate(), lines 56-59, reading the grant with dict.get: a grant
\* without its keys goes on to the replay.
AuthenticateStore_lenient(s, data, r) ==
    LET rest == SubSeq(s.stack, 1, Len(s.stack) - 1)
        s2 == [s EXCEPT !.lastAuth = "ok", !.stack = rest]
    IN  IF rest = <<>>
        THEN [s2 EXCEPT !.result = Returned(NoValue, r)]
        ELSE LET f == rest[Len(rest)]
             IN  CallSendRequest(
                     [s2 EXCEPT !.stack[Len(rest)].pc = "replay"],
                     ReplayArgs(f.args), s.log[f.idx].kind,
                     f.idx, 0, f.depth + 1)

\* authenticate(), lines 56-59, with `data` the value its send_request
\* returned; then the return into the caller: the user, or line 154 of a
\* send_request frame, which goes on to the replay of line 155.
AuthenticateStore(s, data, r) ==
    IF data.kind # "json" THEN Raise(s, "TypeError", r)
    ELSE IF "access_token" \notin data.body.keys THEN Raise(s, "KeyError", r)
    ELSE LET s1 == [s EXCEPT !.token = data.body.access_token]
         IN  IF "expires_in" \notin data.body.keys THEN Raise(s1, "KeyError", r)
             ELSE LET rest == SubSeq(s.stack, 1, Len(s.stack) - 1)
                      s2 == [s1 EXCEPT
                               !.token_expires_in = data.body.expires_in,
                               !.session_headers = StoreHeader(@, s1.token),
                               !.lastGrant = data.body,
                               !.lastAuth = "ok",
                               !.stack = rest]
                  IN  IF rest = <<>>
                      THEN [s2 EXCEPT !.result = Returned(NoValue, r)]
                      ELSE LET f == rest[Len(rest)]
                           IN  CallSendRequest(
                                   [s2 EXCEPT !.stack[Len(rest)].pc = "replay"],
                                   ReplayArgs(f.args), s.log[f.idx].kind,
                                   f.idx, 0, f.depth + 1)

\* The top frame, a send_request, returns v: to the user, to authenticate
\* (line 50) or to the send_request that replayed (line 155), which returns
\* it in turn.
RECURSIVE Return(_, _, _)
Return(s, v, r) ==
    LET rest == SubSeq(s.stack, 1, Len(s.stack) - 1)
        s1 == [s EXCEPT !.stack = rest]
    IN  IF rest = <<>> THEN [s1 EXCEPT !.result = Returned(v, r)]
        ELSE IF rest[Len(rest)].fn = "authenticate" THEN AuthenticateStore(s1, v, r)
        ELSE Return(s1, v, r)

\* The response r arrives for the request of the top frame.
Receive(s, r) ==
    LET f == Top(s)
        s1 == [s EXCEPT !.log[f.idx].answer = Answer(r)]
        c == Classify(r)
    IN  IF c = "success" THEN Return(s1, Decode(r, f.args.octet_stream), r)
        ELSE IF c = "unauthorized" THEN Raise(s1, "WalmartAuthenticationError", r)
        ELSE IF c = "refresh"
        THEN CallAuthenticate([s1 EXCEPT !.stack[Len(s.stack)].pc = "refresh"], f.idx)
        ELSE IF c = "empty" THEN Return(s1, EmptyResult, r)
        ELSE Raise(s1, c, r)

-----------------------------------------------------------------------------
(* The state machine *)

\* The client after its construction: __init__ has authenticated.
ClientInit ==
    /\ stack = <<>>
    /\ token = "T1"
    /\ token_expires_in = "900"
    /\ session_headers = ("WM_SVC.NAME" :> "Walmart Marketplace")
                         @@ ("Content-Type" :> "application/x-www-form-urlencoded")
                         @@ ("Accept" :> "application/json")
                         @@ (ACCESS_TOKEN :> "T1")
    /\ nextId = 1
    /\ log = <<>>
    /\ issued = {}
    /\ nauth = 0
    /\ op = [fn |-> "init", args |-> TokenRequest]
    /\ lastGrant = Grant("T1", "900")
    /\ lastAuth = "ok"
    /\ result = NoResult

NoIO == [fn |-> "none"]

Init == ClientInit /\ io = NoIO

\* The history of a new user call.
Begin(fn, args) ==
    [Cur EXCEPT !.log = <<>>,
                !.issued = @ \cup {log[i].wire.headers[CORRELATION_ID] : i \in 1..Len(log)},
                !.nauth = 0,
                !.op = [fn |-> fn, args |-> args],
                !.result = NoResult]

Idle == stack = <<>> /\ nextId <= MaxIds

\* The user calls send_request (through a resource class or directly).
SendRequest ==
    /\ Idle
    /\ \E d \in Descriptors :
          Become(CallSendRequest(Begin("send_request", d), d, "call", 0, 0, 0))

\* The user calls authenticate().
Authenticate ==
    /\ Idle
    /\ Become(CallAuthenticate(Begin("authenticate", TokenRequest), 0))

Waiting == stack # <<>> /\ Top(Cur).fn = "send_request" /\ Top(Cur).pc = "wait"

\* The service answers 2xx.
ReceiveSuccess ==
    /\ Waiting
    /\ \E r \in Responses : Classify(r) = "success" /\ Become(Receive(Cur, r))

\* The service answers 401.
ReceiveUnauthorized ==
    /\ Waiting
    /\ \E r \in Responses : Classify(r) = "unauthorized" /\ Become(Receive(Cur, r))

\* The service answers the expired-token 400.
ReceiveExpired ==
    /\ Waiting
    /\ \E r \in Responses : Classify(r) = "refresh" /\ Become(Receive(Cur, r))

\* The service answers a 400 that send_request turns into ([], None).
ReceiveNoReport ==
    /\ Waiting
    /\ \E r \in Responses : Classify(r) = "empty" /\ Become(Receive(Cur, r))

\* The service answers a failure that send_request re-raises.
ReceiveFailure ==
    /\ Waiting
    /\ \E r \in Responses : Classify(r) = "HTTPError" /\ Become(Receive(Cur, r))

\* The service answers a 400 whose body send_request cannot handle.
ReceiveMalformed ==
    /\ Waiting
    /\ \E r \in Responses :
          Classify(r) \in {"ParseError", "IndexError"} /\ Become(Receive(Cur, r))

Next ==
    \/ SendRequest
    \/ Authenticate
    \/ ReceiveSuccess
    \/ ReceiveUnauthorized
    \/ ReceiveExpired
    \/ ReceiveNoReport
    \/ ReceiveFailure
    \/ ReceiveMalformed

Spec == Init /\ [][Next]_vars

TypeOK ==
    /\ token \in Tokens
    /\ Len(stack) <= RecursionLimit

-----------------------------------------------------------------------------
(* Vocabulary of the properties *)

Entries == 1..Len(log)

\* The answer is the expired-token 400: its first decoded error code is the sentinel.
ExpiredAnswer(a) == a.status = 400 /\ a.code = INVALID_TOKEN

\* The answer is a 400 whose text holds the NO_REPORT indicator.
NoReportAnswer(a) == a.status = 400 /\ a.noreport

Cid(i) == log[i].wire.headers[CORRELATION_ID]

\* Request i ended the user's call: nothing was dispatched after it and no
\* frame is left.
Last(i) == i = Len(log) /\ stack = <<>>

-----------------------------------------------------------------------------
(* Properties *)

\* C1: a send_request answered with the expired-token 400 authenticates once
\* and replays once, and the replay's outcome is returned as it is: a replay
\* that is itself answered with the expired-token 400 ends the call with that
\* failure, no further authenticate() and no further replay follow.
C1_SingleRetry ==
    \A i \in Entries :
        (log[i].kind = "call" /\ log[i].replayOf # 0 /\ ExpiredAnswer(log[i].answer))
            => /\ Last(i)
               /\ nauth = 1
               /\ result.status = "raised"
               /\ result.exc = "HTTPError"
               /\ Answer(result.resp) = log[i].answer

\* C2: the replay has the arguments of the request it replays (method, url,
\* params, body, json, request_headers, octet_stream).
C2_ReplaySameRequest ==
    \A i \in Entries :
        log[i].replayOf # 0 => log[i].desc = log[log[i].replayOf].desc

\* C3: a request answered with a 401, whatever its body, makes the call raise
\* WalmartAuthenticationError; no authenticate() and no replay follow it.
C3_UnauthorizedNoRetry ==
    \A i \in Entries :
        log[i].answer.status = 401
            => /\ Last(i)
               /\ result.status = "raised"
               /\ result.exc = "WalmartAuthenticationError"
               /\ Cardinality({j \in Entries : log[j].kind = "token" /\ log[j].replayOf = 0})
                      = nauth

\* C3 witness: a 401 whose body lists the expired-token code has been raised
\* as WalmartAuthenticationError.
C3_Witness ==
    /\ result.exc = "WalmartAuthenticationError"
    /\ result.resp.status = 401
    /\ Answer(result.resp).code = INVALID_TOKEN

C5_AuthenticateOnce ==
    \A i \in Entries :
        log[i].kind = "token"
            => /\ log[i].replayOf = 0
               /\ log[i].cause # 0 => log[log[i].cause].kind = "call"

\* C6: a failure response (4xx, 5xx) that is no 401, no expired-token 400 and
\* no NO_REPORT 400 makes the call raise HTTPError carrying that response;
\* nothing follows it.
C6_OtherFailuresRaise ==
    \A i \in Entries :
        (/\ log[i].answer.status >= 400
         /\ log[i].answer.status # 401
         /\ ~ExpiredAnswer(log[i].answer)
         /\ ~NoReportAnswer(log[i].answer))
            => /\ Last(i)
               /\ result.status = "raised"
               /\ result.exc = "HTTPError"
               /\ Answer(result.resp) = log[i].answer

\* C7: after a successful authenticate() token and token_expires_in are the
\* access_token and expires_in of the token response, and every request
\* dispatched carries in WM_SEC.ACCESS_TOKEN the token of the last successful
\* authenticate() before it.
C7_TokenAttached ==
    /\ lastAuth = "ok" => /\ token = lastGrant.access_token
                          /\ token_expires_in = lastGrant.expires_in
    /\ session_headers[ACCESS_TOKEN] = lastGrant.access_token
    /\ \A i \in Entries : log[i].wire.headers[ACCESS_TOKEN] = log[i].granted

\* C7 witness: a replay has been dispatched with a token other than the one
\* the replayed request carried.
C7_Witness ==
    \E i \in Entries :
        /\ log[i].replayOf # 0
        /\ log[i].wire.headers[ACCESS_TOKEN]
               # log[log[i].replayOf].wire.headers[ACCESS_TOKEN]
        /\ log[i].wire.headers[ACCESS_TOKEN] = token

\* C8: the correlation ids of the dispatched requests differ from each other
\* and from those of the earlier calls.
C8_FreshCorrelationId ==
    /\ \A i, j \in Entries : i # j => Cid(i) # Cid(j)
    /\ \A i \in Entries : Cid(i) \notin issued

\* C8 witness: an original request, the token request of its refresh and its
\* replay have been dispatched, after an earlier call.
C8_Witness ==
    /\ issued # {}
    /\ Len(log) >= 3
    /\ log[1].kind = "call"
    /\ log[2].kind = "token"
    /\ log[3].replayOf = 1

\* C9: a send_request call does not end in a failure caused by the
\* expired-token 400: neither the HTTPError of such a response nor the
\* exhaustion of the retries; an HTTPError that reaches the user carries the
\* response of the last request.
C9_ExpiryRecovered ==
    (op.fn = "send_request" /\ result.status = "raised")
        => /\ ~(result.exc = "HTTPError" /\ ExpiredAnswer(Answer(result.resp)))
           /\ result.exc # "RecursionError"
           /\ result.exc = "HTTPError"
                  => /\ log # <<>>
                     /\ Answer(result.resp) = log[Len(log)].answer

\* C10: a call made with octet_stream=True that ends on a 2xx returns the pair
\* (content, Content-Disposition), also when the 2xx answers the replay after
\* a refresh.  Stated for the bodies that do not decode as JSON (line 162
\* returns the decoded object of those that do).
C10_OctetStreamPair ==
    (/\ op.fn = "send_request"
     /\ op.args.octet_stream
     /\ result.status = "returned"
     /\ result.resp.status \in 200..299
     /\ result.resp.body.fmt # "json")
        => result.value = Value("pair", result.resp.body, result.resp.disposition)

-----------------------------------------------------------------------------
(* Classification of a 400 by the encoding of its body *)

\* Longest error list of the bodies classified.
MaxCodes == 3

Codes == {INVALID_TOKEN, NO_REPORT, "OTHER"}

CodeLists == UNION { [1..n -> Codes] : n \in 0..MaxCodes }

\* The same error codes, and the same other text, arrive as JSON and as XML.
ClassifyInit ==
    /\ ClientInit
    /\ \E codes \in CodeLists, mentions \in {{}, {NO_REPORT}} :
          io = [fn |-> "classify", pc |-> "start", codes |-> codes,
                mentions |-> mentions, jsonData |-> ErrorData(NoResponse),
                xmlData |-> ErrorData(NoResponse), json |-> None, xml |-> None]

\* lines 140-160 applied to the two responses
ClassifyBoth ==
    /\ io.pc = "start"
    /\ LET j == Response(400, JsonError(io.codes, io.mentions), None)
           x == Response(400, XmlError(io.codes, io.mentions), None)
       IN  io' = [io EXCEPT !.pc = "done",
                            !.jsonData = ErrorData(j), !.xmlData = ErrorData(x),
                            !.json = Classify(j), !.xml = Classify(x)]
    /\ UNCHANGED clientVars

SpecClassify == ClassifyInit /\ [][ClassifyBoth]_vars

\* C11: the error elements of an XML 400 are decoded into the data a JSON 400
\* with the same codes in the same order gives, and the two are classified
\* alike (refresh and replay, empty result, HTTP failure, or the same crash).
C11_XmlLikeJson ==
    io.pc = "done"
        => /\ io.xmlData = io.jsonData
           /\ io.xmlData.error = io.codes
           /\ io.xml = io.json

\* C11 witness: an XML 400 whose second code is the sentinel and whose text
\* mentions NO_REPORT has been classified as the empty result.
C11_Witness ==
    /\ io.pc = "done"
    /\ io.codes = <<"OTHER", INVALID_TOKEN>>
    /\ io.mentions = {NO_REPORT}
    /\ io.xml = "empty"

-----------------------------------------------------------------------------
(* Items.get_items, lines 205-211: the item report *)

\* Most lines of a report entry.
MaxLines == 3

\* A line of text is a sequence of tokens: cell texts and the delimiter ",".
ReportLines ==
    { <<"sku", ",", "price">>, <<"A1", ",", "9.99">>, <<"B2", ",", "5">>,
      <<>>, <<"A1">>, <<"A1", ",", "9.99", ",", "x">> }

ReportTexts == UNION { [1..n -> ReportLines] : n \in 0..MaxLines }

OtherEntry == << <<"id">>, <<"7">> >>

\* What report.all(type="item") returned: the bytes of a ZIP archive with the
\* entries `entries`, bytes that are no archive, a decoded JSON object, or
\* the pair ([], None) of line 159.
ReportValue(kind, entries) == [kind |-> kind, entries |-> entries]

ReportValues ==
    { ReportValue("zip", <<>>), ReportValue("notzip", <<>>),
      ReportValue("json", <<>>), ReportValue("empty", <<>>) }
    \cup { ReportValue("zip", <<t>>) : t \in ReportTexts }
    \cup { ReportValue("zip", <<t, OtherEntry>>) : t \in ReportTexts }
    \cup { ReportValue("zip", <<OtherEntry, t>>) : t \in ReportTexts }

\* csv.reader on one line: the cells between the delimiters; [] for a blank line.
RECURSIVE Cells(_)
Cells(line) ==
    IF line = <<>> THEN <<>>
    ELSE LET P == {i \in 1..Len(line) : line[i] = ","}
         IN  IF P = {}
             THEN << IF Len(line) = 1 THEN line[1] ELSE "?" >>
             ELSE LET c == CHOOSE i \in P : \A j \in P : i <= j
                      first == IF c = 1 THEN "" ELSE line[1]
                      rest == SubSeq(line, c + 1, Len(line))
                  IN  <<first>> \o (IF rest = <<>> THEN <<"">> ELSE Cells(rest))

\* One row of csv.DictReader: dict(zip(fieldnames, row)), the surplus cells
\* under restkey (None), restval (None) for the missing ones.
DictRow(fieldnames, row) ==
    [fields |-> [k \in {fieldnames[i] : i \in 1..Len(fieldnames)} |->
                    LET I == {i \in 1..Len(fieldnames) : fieldnames[i] = k}
                        known == {i \in I : i <= Len(row)}
                    IN  IF known = {} THEN None
                        ELSE row[CHOOSE i \in known : \A j \in known : j <= i]],
     rest |-> IF Len(row) > Len(fieldnames)
              THEN SubSeq(row, Len(fieldnames) + 1, Len(row)) ELSE <<>>]

\* list(csv.DictReader(text)): the first line gives the field names, blank
\* lines after it are skipped.
RECURSIVE DictRows(_, _)
DictRows(fieldnames, lines) ==
    IF lines = <<>> THEN <<>>
    ELSE LET row == Cells(lines[1])
             more == DictRows(fieldnames, SubSeq(lines, 2, Len(lines)))
         IN  IF row = <<>> THEN more ELSE <<DictRow(fieldnames, row)>> \o more

DictReader(text) ==
    IF text = <<>> THEN <<>>
    ELSE DictRows(Cells(text[1]), SubSeq(text, 2, Len(text)))

FirstEntry_last(entries) == entries[Len(entries)]

\* line 209: zf.infolist()[0]
FirstEntry(entries) == entries[1]

ItemsOutcome(status, exc, items) == [status |-> status, exc |-> exc, items |-> items]

\* lines 207-211 on the value report.all returned
get_items(response) ==
    IF response.kind \in {"json", "empty"}
    THEN ItemsOutcome("raised", "TypeError", <<>>)          \* io.BytesIO(response)
    ELSE IF response.kind = "notzip"
    THEN ItemsOutcome("raised", "BadZipFile", <<>>)         \* zipfile.ZipFile(...)
    ELSE IF response.entries = <<>>
    THEN ItemsOutcome("raised", "IndexError", <<>>)         \* zf.infolist()[0]
    ELSE ItemsOutcome("returned", None, DictReader(FirstEntry(response.entries)))

ReportInit ==
    /\ ClientInit
    /\ \E v \in ReportValues :
          io = [fn |-> "get_items", pc |-> "start", response |-> v,
                outcome |-> ItemsOutcome("none", None, <<>>)]

GetItems ==
    /\ io.pc = "start"
    /\ io' = [io EXCEPT !.pc = "done", !.outcome = get_items(io.response)]
    /\ UNCHANGED clientVars

SpecReport == ReportInit /\ [][GetItems]_vars

\* C12: an archive without entries, and the empty result in place of an
\* archive, end get_items in the ReportUnavailable outcome and in no other error.
C12_ReportUnavailable ==
    (/\ io.pc = "done"
     /\ \/ io.response.kind = "empty"
        \/ io.response.kind = "zip" /\ io.response.entries = <<>>)
        => io.outcome = ItemsOutcome("raised", "ReportUnavailable", <<>>)

\* A table: a header line of distinct field names and data lines with one
\* cell for each of them.
IsTable(text) ==
    /\ text # <<>>
    /\ LET h == Cells(text[1])
       IN  /\ h # <<>>
           /\ \A i, j \in 1..Len(h) : i # j => h[i] # h[j]
           /\ \A n \in 2..Len(text) : Len(Cells(text[n])) = Len(h)

\* C13: for an archive with at least one entry whose first entry is a table,
\* get_items returns one mapping per data row, in the order of the rows, the
\* i-th mapping each field name of the header to the cell of row i under it.
C13_RowsDecoded ==
    (/\ io.pc = "done"
     /\ io.response.kind = "zip"
     /\ io.response.entries # <<>>
     /\ IsTable(io.response.entries[1]))
        => LET text == io.response.entries[1]
               h == Cells(text[1])
               out == io.outcome.items
           IN  /\ io.outcome.status = "returned"
               /\ Len(out) = Len(text) - 1
               /\ \A i \in 1..Len(out) :
                     /\ DOMAIN out[i].fields = {h[k] : k \in 1..Len(h)}
                     /\ \A k \in 1..Len(h) : out[i].fields[h[k]] = Cells(text[i + 1])[k]
                     /\ out[i].rest = <<>>

\* C13 witness: header sku,price and the rows A1,9.99 and B2,5, in an archive
\* with a second entry, have been decoded into two mappings.
C13_Witness ==
    /\ io.pc = "done"
    /\ io.response.entries = << << <<"sku", ",", "price">>, <<"A1", ",", "9.99">>,
                                   <<"B2", ",", "5">> >>, OtherEntry >>
    /\ Len(io.outcome.items) = 2
    /\ io.outcome.items[2].fields["price"] = "5"

-----------------------------------------------------------------------------
(* Values of the records the payload builders are given *)

\* datetime(year, month, day, hour, minute, second), naive, read as UTC
Datetime(y, mo, d, h, mi, sec) ==
    [year |-> y, month |-> mo, day |-> d, hour |-> h, minute |-> mi, second |-> sec]

Epoch == Datetime(1970, 1, 1, 0, 0, 0)      \* datetime.utcfromtimestamp(0)

\* A Python value: None ("none"), a str that is no number ("text", s), the
\* str of the decimal digits of a number ("digits"), an int ("int") or a
\* datetime ("datetime", d).  A number is written hi * 1000 + lo, so that
\* epoch milliseconds stay within the integers of the model checker.
PyValue(t, s, hi, lo, d) == [t |-> t, s |-> s, hi |-> hi, lo |-> lo, d |-> d]

NoneV == PyValue("none", "", 0, 0, Epoch)
TextV(s) == PyValue("text", s, 0, 0, Epoch)
DigitsV(n) == PyValue("digits", "", n \div 1000, n % 1000, Epoch)
IntV(n) == PyValue("int", "", n \div 1000, n % 1000, Epoch)
TimeV(d) == PyValue("datetime", "", 0, 0, d)

\* str(v) of an int or a str
str(v) == IF v.t = "int" THEN [v EXCEPT !.t = "digits"] ELSE v

\* bool(v)
Truthy(v) ==
    /\ v.t # "none"
    /\ v # TextV("")
    /\ ~(v.t = "int" /\ v.hi = 0 /\ v.lo = 0)

-----------------------------------------------------------------------------
(* epoch_milliseconds, lines 17-20 *)

IsLeap(y) == y % 4 = 0 /\ (y % 100 # 0 \/ y % 400 = 0)

DaysInMonth(y, m) ==
    IF m = 2 THEN (IF IsLeap(y) THEN 29 ELSE 28)
    ELSE IF m \in {4, 6, 9, 11} THEN 30 ELSE 31

\* datetime.toordinal(): days before the year, days before the month, the day
DaysBeforeYear(y) ==
    (y - 1) * 365 + (y - 1) \div 4 - (y - 1) \div 100 + (y - 1) \div 400

RECURSIVE DaysBeforeMonth(_, _)
DaysBeforeMonth(y, m) ==
    IF m = 1 THEN 0 ELSE DaysBeforeMonth(y, m - 1) + DaysInMonth(y, m - 1)

ToOrdinal(dt) == DaysBeforeYear(dt.year) + DaysBeforeMonth(dt.year, dt.month) + dt.day

\* (dt - epoch).total_seconds() of datetimes without microseconds
total_seconds(dt, epoch) ==
    (ToOrdinal(dt) - ToOrdinal(epoch)) * 86400
    + (dt.hour - epoch.hour) * 3600 + (dt.minute - epoch.minute) * 60
    + (dt.second - epoch.second)

\* line 20 without the factor 1000.0
epoch_milliseconds_seconds(dt) ==
    PyValue("int", "", 0, total_seconds(dt, Epoch), Epoch)

\* line 20: int(seconds * 1000.0); the product of a whole number of seconds
\* below 2^53 / 1000 is exact in a double.
epoch_milliseconds(dt) ==
    PyValue("int", "", total_seconds(dt, Epoch), 0, Epoch)

\* Ship times: whole seconds from 1970 on.
Datetimes ==
    { Datetime(y, mo, d, h, mi, sec) :
        y \in {1970, 2000, 2019, 2020}, mo \in {1, 2, 3, 4, 12}, d \in {1, 4, 29},
        h \in {0, 12, 23}, mi \in {0, 59}, sec \in {0, 59} }
    \ { Datetime(y, 2, 29, h, mi, sec) :
        y \in {1970, 2019}, h \in {0, 12, 23}, mi \in {0, 59}, sec \in {0, 59} }

-----------------------------------------------------------------------------
(* The payload builders: Inventory.bulk_update, update_inventory,            *)
(* get_inventory_payload, get_payload, Orders.create_shipment, Feed.create   *)

MaxBatch == 2

\* dict.get(k, default)
Get(d, k, default) == IF k \in DOMAIN d THEN d[k] ELSE default

\* Resource.url, lines 178-180: the base URL and the path segments after it
url(path) == <<base_url, path>>

\* What one pass of a loop body, or one builder, ends in.
Built(data) == [error |-> None, data |-> data]
Failed(error) == [error |-> error, data |-> <<>>]

\* A for loop over the records: the first record that raises ends the loop.
Loop(rs) ==
    LET bad == { i \in DOMAIN rs : rs[i].error # None } IN
    IF bad # {}
    THEN Failed(rs[CHOOSE i \in bad : \A j \in bad : i <= j].error)
    ELSE Built([i \in DOMAIN rs |-> rs[i].data])

\* The first of the subscripted keys, in evaluation order, the dict lacks.
Missing(d, keys) ==
    LET absent == { i \in DOMAIN keys : keys[i] \notin DOMAIN d } IN
    IF absent = {} THEN None
    ELSE keys[CHOOSE i \in absent : \A j \in absent : i <= j]

\* lines 249-260, with item.get("quantity") in place of item["quantity"]
InventoryData_get(item) ==
    IF "sku" \notin DOMAIN item THEN Failed("KeyError")
    ELSE
        LET data == [sku |-> item["sku"],
                     quantity |-> [amount |-> Get(item, "quantity", NoneV),
                                   unit |-> Get(item, "uom", TextV("EACH"))],
                     fulfillmentLagTime |-> Get(item, "fulfillment_lag_time", NoneV)]
        IN Built(data)

\* lines 249-260: the body of the loop of bulk_update
InventoryData(item) ==
    IF Missing(item, <<"sku", "quantity">>) # None THEN Failed("KeyError")
    ELSE
        LET data == [sku |-> item["sku"],
                     quantity |-> [amount |-> item["quantity"],
                                   unit |-> Get(item, "uom", TextV("EACH"))],
                     fulfillmentLagTime |-> Get(item, "fulfillment_lag_time", NoneV)]
        IN IF Truthy(Get(item, "availability_code", NoneV))
           THEN Built(data @@ [availabilityCode |-> item["availability_code"]])
           ELSE Built(data)

\* Feed.create, lines 582-599
FeedCreate(resource, content) ==
    Descriptor("POST", url("feeds"), [feedType |-> resource], None, content, None, FALSE)

\* Inventory.bulk_update, lines 233-268: the calls of send_request it makes
bulk_update(items) ==
    LET inventory_data == Loop([i \in DOMAIN items |-> InventoryData(items[i])]) IN
    IF inventory_data.error # None
    THEN [status |-> "raised", error |-> inventory_data.error, value |-> <<>>, sent |-> <<>>]
    ELSE LET body == [InventoryHeader |-> [version |-> TextV("1.4")],
                      Inventory |-> inventory_data.data]
         IN [status |-> "dispatched", error |-> None, value |-> <<>>,
             sent |-> <<FeedCreate("inventory", body)>>]

\* An element of a document: namespace, tag, attributes, text, children.
Element(ns, tag, attrib, text, children) ==
    [ns |-> ns, tag |-> tag, attrib |-> attrib, text |-> text, children |-> children]

\* ElementMaker.__call__(tag, text): a child that is no str is a TypeError
Leaf(ns, tag, v) ==
    IF v.t \in {"text", "digits"} THEN Built(Element(ns, tag, <<>>, v, <<>>))
    ELSE Failed("TypeError")

\* ElementMaker.__call__(tag, *children, **attrib)
Node(ns, tag, attrib, children) ==
    LET cs == Loop(children) IN
    IF cs.error # None THEN cs
    ELSE Built(Element(ns, tag, attrib, NoneV, cs.data))

wm == "http://walmart.com/"

\* Inventory.get_inventory_payload, lines 290-308
get_inventory_payload(sku, quantity) ==
    Node(wm, "inventory", <<>>,
         << Leaf(wm, "sku", sku),
            Node(wm, "quantity", <<>>,
                 << Leaf(wm, "unit", TextV("EACH")),
                    Leaf(wm, "amount", str(quantity)) >>),
            Leaf(wm, "fulfillmentLagTime", DigitsV(4)) >>)

\* Inventory.update_inventory, lines 270-280
update_inventory(sku, quantity) ==
    LET payload == get_inventory_payload(sku, quantity) IN
    IF payload.error # None
    THEN [status |-> "raised", error |-> payload.error, value |-> <<>>, sent |-> <<>>]
    ELSE [status |-> "dispatched", error |-> None, value |-> <<>>,
          sent |-> <<Descriptor("PUT", url("inventory"), [sku |-> sku],
                                payload.data, None, "XML", FALSE)>>]

\* lines 314-322, with the amount under the unit's tag and the unit under the amount's
InventoryElement_swapped(item) ==
    IF Missing(item, <<"sku", "quantity">>) # None THEN Failed("KeyError")
    ELSE Node(None, "inventory", <<>>,
              << Leaf(None, "sku", item["sku"]),
                 Node(None, "quantity", <<>>,
                      << Leaf(None, "unit", item["quantity"]),
                         Leaf(None, "amount", TextV("EACH")) >>) >>)

\* lines 314-322: the element of one record in get_payload
InventoryElement(item) ==
    IF Missing(item, <<"sku", "quantity">>) # None THEN Failed("KeyError")
    ELSE Node(None, "inventory", <<>>,
              << Leaf(None, "sku", item["sku"]),
                 Node(None, "quantity", <<>>,
                      << Leaf(None, "unit", TextV("EACH")),
                         Leaf(None, "amount", item["quantity"]) >>) >>)

\* Inventory.get_payload, lines 310-325
get_payload(items) ==
    LET doc == Node(None, "InventoryFeed", [xmlns |-> wm],
                    << Node(None, "InventoryHeader", <<>>,
                            << Leaf(None, "version", TextV("1.4")) >>) >>
                    \o [i \in DOMAIN items |-> InventoryElement(items[i])])
    IN IF doc.error # None
       THEN [status |-> "raised", error |-> doc.error, value |-> <<>>, sent |-> <<>>]
       ELSE [status |-> "returned", error |-> None, value |-> doc.data, sent |-> <<>>]

\* int(v)
int(v) ==
    CASE v.t \in {"int", "digits"} -> Built([v EXCEPT !.t = "int"])
      [] v.t = "text" -> Failed("ValueError")
      [] OTHER -> Failed("TypeError")

\* lines 494-496: ship_time of one line
ShipTime(line) ==
    LET ship_time == Get(line, "ship_time", TextV("")) IN
    IF ~Truthy(ship_time) THEN Built(ship_time)
    ELSE IF ship_time.t = "datetime" THEN Built(epoch_milliseconds(ship_time.d))
    ELSE Failed("TypeError")

\* lines 493-518: the body of the loop of create_shipment
OrderLine(line) ==
    LET ship_time == ShipTime(line) IN
    IF ship_time.error # None THEN ship_time
    ELSE IF Missing(line, <<"line_number", "quantity">>) # None THEN Failed("KeyError")
    ELSE IF int(line["quantity"]).error # None THEN int(line["quantity"])
    ELSE IF Missing(line, <<"carrier", "tracking_number">>) # None THEN Failed("KeyError")
    ELSE Built(
        [lineNumber |-> line["line_number"],
         orderLineStatuses |-> [orderLineStatus |-> <<
            [status |-> TextV("Shipped"),
             statusQuantity |->
                [unitOfMeasurement |-> Get(line, "uom", TextV("EACH")),
                 amount |-> str(int(line["quantity"]).data)],
             trackingInfo |->
                [shipDateTime |-> ship_time.data,
                 carrierName |-> [otherCarrier |-> Get(line, "other_carrier", NoneV),
                                  carrier |-> line["carrier"]],
                 methodCode |-> Get(line, "carrier_service", TextV("")),
                 trackingNumber |-> line["tracking_number"],
                 trackingURL |-> Get(line, "tracking_url", TextV(""))]] >>]])

\* Orders.create_shipment, lines 473-531
create_shipment(order_id, lines) ==
    LET order_lines == Loop([i \in DOMAIN lines |-> OrderLine(lines[i])]) IN
    IF order_lines.error # None
    THEN [status |-> "raised", error |-> order_lines.error, value |-> <<>>, sent |-> <<>>]
    ELSE LET body == [orderShipment |-> [orderLines |-> [orderLine |-> order_lines.data]]]
         IN [status |-> "dispatched", error |-> None, value |-> <<>>,
             sent |-> <<Descriptor("POST", url("orders") \o <<order_id, "shipping">>,
                                   None, None, body, None, FALSE)>>]

-----------------------------------------------------------------------------
(* The builders as a specification: one call of one builder *)

\* Inventory records: complete, minimal, with an int quantity, without sku,
\* without quantity.
InventoryItems ==
    { [sku |-> TextV("A1"), availability_code |-> TextV("AC"), quantity |-> DigitsV(10),
       uom |-> TextV("EACH"), fulfillment_lag_time |-> DigitsV(1)],
      [sku |-> TextV("B2"), quantity |-> DigitsV(5)],
      [sku |-> TextV("A1"), quantity |-> IntV(10)],
      [quantity |-> DigitsV(10)],
      [sku |-> TextV("A1")] }

ShipTimes == { Datetime(2019, 4, 4, 12, 0, 0), Datetime(1970, 1, 1, 0, 0, 1) }

\* Order lines: complete (one per ship time), minimal, with a quantity that
\* is no number, and one without each subscripted field.
CompleteLine(dt) ==
    [line_number |-> DigitsV(123), uom |-> TextV("EACH"), quantity |-> IntV(3),
     ship_time |-> TimeV(dt), other_carrier |-> NoneV, carrier |-> TextV("USPS"),
     carrier_service |-> TextV("Standard"), tracking_number |-> DigitsV(345),
     tracking_url |-> TextV("www.fedex.com")]

MinimalLine ==
    [line_number |-> DigitsV(124), quantity |-> DigitsV(2), carrier |-> TextV("USPS"),
     tracking_number |-> DigitsV(346)]

Without(d, k) == [x \in (DOMAIN d) \ {k} |-> d[x]]

ShipmentLines ==
    { CompleteLine(dt) : dt \in ShipTimes }
    \cup { MinimalLine, [MinimalLine EXCEPT !.quantity = TextV("two")] }
    \cup { Without(MinimalLine, k) :
             k \in {"line_number", "quantity", "carrier", "tracking_number"} }

Batches(S) == UNION { [1..n -> S] : n \in 0..MaxBatch }

NoOutcome == [status |-> "none", error |-> None, value |-> <<>>, sent |-> <<>>]

Call(fn, args) == [fn |-> fn, pc |-> "start", args |-> args, outcome |-> NoOutcome]

FeedInit ==
    /\ ClientInit
    /\ \/ \E items \in Batches(InventoryItems) :
             io \in {Call("bulk_update", items), Call("get_payload", items)}
       \/ \E sku \in {TextV("A1")}, quantity \in {DigitsV(10), IntV(10), NoneV} :
             io = Call("update_inventory", <<sku, quantity>>)
       \/ \E lines \in Batches(ShipmentLines) :
             io = Call("create_shipment", <<"PO1", lines>>)
       \/ \E dt \in Datetimes : io = Call("epoch_milliseconds", dt)

Finish(outcome) ==
    /\ io.pc = "start"
    /\ io' = [io EXCEPT !.pc = "done", !.outcome = outcome]
    /\ UNCHANGED clientVars

BulkUpdate == io.fn = "bulk_update" /\ Finish(bulk_update(io.args))

GetPayload == io.fn = "get_payload" /\ Finish(get_payload(io.args))

UpdateInventory ==
    io.fn = "update_inventory" /\ Finish(update_inventory(io.args[1], io.args[2]))

CreateShipment ==
    io.fn = "create_shipment" /\ Finish(create_shipment(io.args[1], io.args[2]))

EpochMilliseconds ==
    /\ io.fn = "epoch_milliseconds"
    /\ Finish([NoOutcome EXCEPT !.status = "returned",
                                !.value = epoch_milliseconds(io.args)])

FeedNext ==
    \/ BulkUpdate
    \/ GetPayload
    \/ UpdateInventory
    \/ CreateShipment
    \/ EpochMilliseconds

SpecFeed == FeedInit /\ [][FeedNext]_vars

Done(fn) == io.fn = fn /\ io.pc = "done"

\* The fields a record of a builder must carry: those the builder subscripts.
Required(fn) ==
    IF fn = "bulk_update" THEN {"sku", "quantity"}
    ELSE {"line_number", "quantity", "carrier", "tracking_number"}

Records(c) == IF c.fn = "bulk_update" THEN c.args ELSE c.args[2]

Malformed(c) ==
    \E i \in DOMAIN Records(c) : ~(Required(c.fn) \subseteq DOMAIN Records(c)[i])

\* C14: a batch of bulk_update or create_shipment with a record that lacks a
\* required field, wherever the record sits, ends in an error and no request
\* has been handed to send_request.
C14_MalformedNothingSent ==
    \A fn \in {"bulk_update", "create_shipment"} :
        (Done(fn) /\ Malformed(io))
            => /\ io.outcome.status = "raised"
               /\ io.outcome.error \in {"KeyError", "ValueError", "TypeError"}
               /\ io.outcome.sent = <<>>

\* A batch of two whose second record is the malformed one has been refused.
C14_Witness ==
    /\ Done("bulk_update")
    /\ Len(io.args) = 2
    /\ Required("bulk_update") \subseteq DOMAIN io.args[1]
    /\ "quantity" \notin DOMAIN io.args[2]
    /\ io.outcome.status = "raised"
    /\ io.outcome.error = "KeyError"
    /\ io.outcome.sent = <<>>

Dispatched(fn) == Done(fn) /\ io.outcome.status = "dispatched"

\* A null or an empty text
Empty(v) == v.t = "none" \/ v = TextV("")

\* The field of an outbound dict is left out, or carries a value.
Omitted(given, k, out, f) ==
    k \notin DOMAIN given => (f \notin DOMAIN out \/ ~Empty(out[f]))

\* C15: in every document bulk_update and create_shipment hand to
\* send_request, an optional field the record does not supply is left out,
\* never present with a null or empty value.
C15_OptionalOmitted ==
    /\ Dispatched("bulk_update") =>
          \A i \in DOMAIN io.args :
              LET data == io.outcome.sent[1].json.Inventory[i] IN
              /\ Omitted(io.args[i], "uom", data.quantity, "unit")
              /\ Omitted(io.args[i], "fulfillment_lag_time", data, "fulfillmentLagTime")
              /\ Omitted(io.args[i], "availability_code", data, "availabilityCode")
    /\ Dispatched("create_shipment") =>
          \A i \in DOMAIN io.args[2] :
              LET line == io.args[2][i]
                  st == io.outcome.sent[1].json.orderShipment.orderLines.orderLine[i]
                            .orderLineStatuses.orderLineStatus[1]
              IN /\ Omitted(line, "uom", st.statusQuantity, "unitOfMeasurement")
                 /\ Omitted(line, "ship_time", st.trackingInfo, "shipDateTime")
                 /\ Omitted(line, "other_carrier", st.trackingInfo.carrierName, "otherCarrier")
                 /\ Omitted(line, "carrier_service", st.trackingInfo, "methodCode")
                 /\ Omitted(line, "tracking_url", st.trackingInfo, "trackingURL")

IsText(v) == v.t \in {"text", "digits"}

\* C16: every amount of an outbound document is a text, whichever type the
\* caller gave the quantity in: in the feed of bulk_update, in the payloads
\* of update_inventory and get_payload, in the shipment of create_shipment.
C16_QuantitiesAsText ==
    /\ Dispatched("bulk_update") =>
          \A i \in DOMAIN io.args :
              IsText(io.outcome.sent[1].json.Inventory[i].quantity.amount)
    /\ Dispatched("update_inventory") =>
          IsText(io.outcome.sent[1].body.children[2].children[2].text)
    /\ (Done("get_payload") /\ io.outcome.status = "returned") =>
          \A i \in DOMAIN io.args :
              IsText(io.outcome.value.children[i + 1].children[2].children[2].text)
    /\ Dispatched("create_shipment") =>
          \A i \in DOMAIN io.args[2] :
              IsText(io.outcome.sent[1].json.orderShipment.orderLines.orderLine[i]
                        .orderLineStatuses.orderLineStatus[1].statusQuantity.amount)

\* The namespace a reader of the serialized document gives an element: its
\* own, or the default namespace declared closest above it.
NamespaceOf(el, inherited) ==
    IF el.ns # None THEN el.ns
    ELSE IF "xmlns" \in DOMAIN el.attrib THEN el.attrib["xmlns"]
    ELSE inherited

\* The children of an element with a tag
Children(el, tag) == { i \in DOMAIN el.children : el.children[i].tag = tag }

\* Inventory records with a text for sku and for quantity
TextRecords(items) ==
    \A i \in DOMAIN items :
        /\ {"sku", "quantity"} \subseteq DOMAIN items[i]
        /\ IsText(items[i]["sku"])
        /\ IsText(items[i]["quantity"])

\* C17: for inventory records with text fields, get_payload returns a
\* document in the namespace http://walmart.com/ whose root holds a header
\* with version 1.4 and then one inventory element per record, in order,
\* each with exactly one sku (the record's sku) and exactly one amount
\* (the record's quantity).
C17_InventoryFeedDocument ==
    (Done("get_payload") /\ TextRecords(io.args)) =>
        /\ io.outcome.status = "returned"
        /\ LET root == io.outcome.value
               ns == NamespaceOf(root, None)
           IN /\ root.tag = "InventoryFeed"
              /\ ns = "http://walmart.com/"
              /\ Len(root.children) = Len(io.args) + 1
              /\ Children(root, "InventoryHeader") = {1}
              /\ \E v \in DOMAIN root.children[1].children :
                    /\ Children(root.children[1], "version") = {v}
                    /\ root.children[1].children[v].text = TextV("1.4")
              /\ \A i \in DOMAIN io.args :
                    LET inv == root.children[i + 1] IN
                    /\ inv.tag = "inventory"
                    /\ NamespaceOf(inv, ns) = "http://walmart.com/"
                    /\ \E k \in DOMAIN inv.children :
                          /\ Children(inv, "sku") = {k}
                          /\ inv.children[k].text = io.args[i]["sku"]
                    /\ \E q \in DOMAIN inv.children :
                          /\ Children(inv, "quantity") = {q}
                          /\ \E a \in DOMAIN inv.children[q].children :
                                /\ Children(inv.children[q], "amount") = {a}
                                /\ inv.children[q].children[a].text = io.args[i]["quantity"]
                                /\ NamespaceOf(inv.children[q].children[a], ns)
                                      = "http://walmart.com/"

\* The document of two different records has been built.
C17_Witness ==
    /\ Done("get_payload")
    /\ TextRecords(io.args)
    /\ Len(io.args) = 2
    /\ io.args[1]["sku"] = TextV("A1")
    /\ io.args[2]["sku"] = TextV("B2")
    /\ io.outcome.status = "returned"
    /\ Len(io.outcome.value.children) = 3
    /\ io.outcome.value.children[2].children[2].children[2].text = DigitsV(10)

\* The whole seconds from the epoch to a datetime, counted year by year,
\* month by month.
RECURSIVE DaysSince1970(_)
DaysSince1970(y) ==
    IF y = 1970 THEN 0
    ELSE DaysSince1970(y - 1) + (IF IsLeap(y - 1) THEN 366 ELSE 365)

RECURSIVE DaysOfMonths(_, _)
DaysOfMonths(y, m) ==
    IF m = 0 THEN 0 ELSE DaysOfMonths(y, m - 1) + DaysInMonth(y, m)

SecondsAfterEpoch(dt) ==
    ((DaysSince1970(dt.year) + DaysOfMonths(dt.year, dt.month - 1) + dt.day - 1) * 24
        + dt.hour) * 3600 + dt.minute * 60 + dt.second

\* The int s * 1000
Milliseconds(s) == PyValue("int", "", s, 0, Epoch)

\* C18: epoch_milliseconds of a time s whole seconds after the epoch is the
\* int s * 1000 (1554379200000 for 2019-04-04 12:00:00), and create_shipment
\* puts that int in shipDateTime of the line.
C18_EpochMilliseconds ==
    /\ Done("epoch_milliseconds") =>
          /\ io.outcome.value = Milliseconds(SecondsAfterEpoch(io.args))
          /\ io.args = Datetime(2019, 4, 4, 12, 0, 0)
                => io.outcome.value = Milliseconds(1554379200)
    /\ Dispatched("create_shipment") =>
          \A i \in DOMAIN io.args[2] :
              LET line == io.args[2][i]
                  info == io.outcome.sent[1].json.orderShipment.orderLines.orderLine[i]
                              .orderLineStatuses.orderLineStatus[1].trackingInfo
              IN "ship_time" \in DOMAIN line =>
                    info.shipDateTime = Milliseconds(SecondsAfterEpoch(line["ship_time"].d))

\* A shipment whose first line was shipped at 2019-04-04 12:00:00 has been sent.
C18_Witness ==
    /\ Dispatched("create_shipment")
    /\ Len(io.args[2]) >= 1
    /\ "ship_time" \in DOMAIN io.args[2][1]
    /\ io.args[2][1]["ship_time"] = TimeV(Datetime(2019, 4, 4, 12, 0, 0))
    /\ io.outcome.sent[1].json.orderShipment.orderLines.orderLine[1]
          .orderLineStatuses.orderLineStatus[1].trackingInfo.shipDateTime
            = Milliseconds(1554379200)

-----------------------------------------------------------------------------
(* The dispatch and the refresh, under Spec *)

\* C19: what a dispatched request carries follows from its method: a GET the
\* params and no body; a PUT the params and the body; a POST the params and
\* the JSON body when json was given, else the form body, never both.
C19_BodyByMethod ==
    \A i \in Entries :
        LET d == log[i].desc
            w == log[i].wire
        IN  /\ w.params = d.params
            /\ d.method = "GET" => (w.data = None /\ w.json = None)
            /\ d.method = "PUT" => (w.data = d.body /\ w.json = None)
            /\ (d.method = "POST" /\ d.json # None) => (w.json = d.json /\ w.data = None)
            /\ (d.method = "POST" /\ d.json = None) => (w.data = d.body /\ w.json = None)

\* A POST given a form body and a JSON body has been dispatched with the
\* JSON body alone.
C19_Witness ==
    \E i \in Entries :
        /\ log[i].desc.method = "POST"
        /\ log[i].desc.body # None
        /\ log[i].desc.json # None
        /\ log[i].desc.params = None
        /\ log[i].wire.json = log[i].desc.json
        /\ log[i].wire.data = None

\* The token request was answered with a grant: a success whose JSON holds
\* access_token and expires_in.
Granted(a) == a.status >= 200 /\ a.status < 400 /\ a.grant

\* C20: a replay is dispatched right after a token request that was answered
\* with a grant, and a token request of a refresh that was answered with
\* anything else but the expired-token 400 ends the user's call with an
\* error and nothing dispatched after it (a 401 with WalmartAuthenticationError).
C20_ReplayAfterGrant ==
    /\ \A i \in Entries :
          log[i].replayOf # 0
              => /\ i > 1
                 /\ log[i - 1].kind = "token"
                 /\ Granted(log[i - 1].answer)
                 /\ log[i].replayOf < i - 1
    /\ \A j \in Entries :
          (/\ log[j].kind = "token"
           /\ log[j].cause # 0
           /\ log[j].answer # NoAnswer
           /\ ~Granted(log[j].answer)
           /\ ~ExpiredAnswer(log[j].answer))
              => /\ Last(j)
                 /\ result.status = "raised"
                 /\ log[j].answer.status = 401 => result.exc = "WalmartAuthenticationError"
                 /\ \A i \in Entries : log[i].replayOf # log[j].cause

\* The token request of a refresh was answered 401: the call has raised and
\* the request that met the expired token was not replayed.
C20_Witness ==
    /\ Len(log) = 2
    /\ log[1].kind = "call"
    /\ ExpiredAnswer(log[1].answer)
    /\ log[2].kind = "token"
    /\ log[2].cause = 1
    /\ log[2].answer.status = 401
    /\ stack = <<>>
    /\ result.status = "raised"
    /\ result.exc = "WalmartAuthenticationError"

\* The stored credentials: token, token_expires_in and the session's
\* WM_SEC.ACCESS_TOKEN header.
Credentials == <<token, token_expires_in, session_headers[ACCESS_TOKEN]>>

\* C21: a step changes token, token_expires_in or the WM_SEC.ACCESS_TOKEN
\* header only when an authenticate() completes in it, and then all three
\* are those of its grant; a failed authenticate() and every request without
\* a refresh leave the three as they were.
C21_CredentialsFrame ==
    [][ Credentials' # Credentials
            => /\ lastAuth' = "ok"
               /\ Credentials' = <<lastGrant'.access_token, lastGrant'.expires_in,
                                   lastGrant'.access_token>> ]_vars

-----------------------------------------------------------------------------
(* Orders.all, lines 408-423 *)

orders_url == "https://marketplace.walmartapis.com/v3/orders"

\* Resource.all, lines 182-185: the request of Orders.all
OrdersRequest == Descriptor("GET", orders_url, "P", None, None, None, FALSE)

\* The user calls orders.all(**kwargs).
OrdersAll ==
    /\ Idle
    /\ Become(CallSendRequest(Begin("Orders.all", OrdersRequest), OrdersRequest,
                              "call", 0, 0, 0))

OrdersNext ==
    \/ OrdersAll
    \/ ReceiveSuccess
    \/ ReceiveUnauthorized
    \/ ReceiveExpired
    \/ ReceiveNoReport
    \/ ReceiveFailure
    \/ ReceiveMalformed

SpecOrders == Init /\ [][OrdersNext]_vars

\* A call of Orders.all has ended.
OrdersEnded == op.fn = "Orders.all" /\ stack = <<>> /\ result.status # "none"

\* C22: Orders.all returns the empty order list when, and only when, the
\* orders request (the original or its replay) was answered 404; a call that
\* ended on any other failure, the failure of a refresh's token request
\* included, raises that failure.
C22_EmptyOrdersOnly404 ==
    OrdersEnded =>
        LET n == Len(log) IN
        /\ (result.status = "returned" /\ result.value = EmptyOrders)
              <=> (log[n].kind = "call" /\ log[n].answer.status = 404)
        /\ (log[n].kind = "token" /\ raise_for_status(result.resp))
              => result.status = "raised"

====
